---- MODULE Spec2Model ----
(***************************************************************************)
(* Spotify proxy worker (src/src/index.ts).                                *)
(*                                                                         *)
(* The worker is a set of async route handlers over one KV namespace       *)
(* (env.SPOTIFY_DATA) and the upstream Spotify HTTP API.  Every `await` on *)
(* the store or on the upstream is a point where another request may run,  *)
(* so each handler is cut into one action per store/upstream access; the   *)
(* synchronous code that follows an access belongs to the same action.     *)
(* Strings whose content the code inspects (client id, secret, state,      *)
(* query parameters) are sequences of one-character strings.               *)
(***************************************************************************)
EXTENDS Integers, Sequences, FiniteSets, TLC

VARIABLES
    kv,     \* the KV namespace: key -> entry
    req,    \* the requests in flight: slot -> handler position and locals
    last,   \* the request that completed most recently, with its response
    now,    \* the wall clock
    stale   \* the callbacks in flight whose state marker was stored anew
            \* after they read it (history, not program state)

vars == <<kv, req, last, now, stale>>

----------------------------------------------------------------------------
(* Bounds of the model *)

\* concurrently running requests
MaxReq == 2
\* distinct outcomes of the random source behind generateRandomString
MaxSeed == 2
\* ticks of the wall clock read by new Date()
MaxClock == 1

Req == 1..MaxReq

----------------------------------------------------------------------------
(* Program constants *)

MinClientIdLen == 30
StateLen == 16
StateTtl == 600
TokensTtl == 3600
NoTtl == 0

----------------------------------------------------------------------------
(* Strings *)

Rep(c, n) == [i \in 1..n |-> c]

\* a query/form parameter that is missing: searchParams.get / formData.get
\* return null
NullStr == <<"<null>">>

Upper == <<"A","B","C","D","E","F","G","H","I","J","K","L","M",
           "N","O","P","Q","R","S","T","U","V","W","X","Y","Z">>
Lower == <<"a","b","c","d","e","f","g","h","i","j","k","l","m",
           "n","o","p","q","r","s","t","u","v","w","x","y","z">>
Digits == <<"0","1","2","3","4","5","6","7","8","9">>

\* charset of generateRandomString
charset == Upper \o Lower \o Digits

Range(s) == {s[i] : i \in 1..Len(s)}

\* clientId.match(/^[a-zA-Z0-9]+$/)
matchAlnum(s) == Len(s) > 0 /\ \A i \in 1..Len(s) : s[i] \in Range(charset)

\* JavaScript truthiness of a string-or-null
Truthy(s) == s # NullStr /\ Len(s) > 0

\* the random draws the model considers: draw number i of seed sd
RandomDraws(length) ==
    {[i \in 1..length |-> (sd * i) % Len(charset)] : sd \in 1..MaxSeed}

generateRandomString(length, rnd) ==
    [i \in 1..length |-> charset[rnd[i] + 1]]

GeneratedStates == {generateRandomString(StateLen, d) : d \in RandomDraws(StateLen)}

\* a state value no /setup ever produced
ForgedState == Rep("x", StateLen)

StateUniverse == GeneratedStates \cup {ForgedState}

----------------------------------------------------------------------------
(* The KV namespace env.SPOTIFY_DATA *)

CredKey == <<"spotify_credentials">>
TokKey == <<"spotify_tokens">>
StateKey(s) == <<"oauth_state_", s>>

Keys == {CredKey, TokKey} \cup {StateKey(s) : s \in StateUniverse}

Absent == [present |-> FALSE]
Entry(v, ttl) == [present |-> TRUE, value |-> v, ttl |-> ttl]

\* texts held by the store and returned by get(); get() of a missing or
\* expired key returns null
KVNull == [text |-> "null"]
RawText(s) == [text |-> "raw", str |-> s]
JSONstringify(o) == [text |-> "json", obj |-> o]
JSONparse(t) == t.obj

KVget(store, k) == IF store[k].present THEN store[k].value ELSE KVNull
KVput(store, k, v, ttl) == [store EXCEPT ![k] = Entry(v, ttl)]
\* slip: the delete is dropped
KVdelete_skipped(store, k) == store
KVdelete(store, k) == [store EXCEPT ![k] = Absent]

\* JavaScript null as the result of a handler-level read
JsNull == [null |-> TRUE]

\* getStoredCredentials / getStoredTokens: text ? JSON.parse(text) : null
getStoredCredentials(store) ==
    LET credentialsJson == KVget(store, CredKey)
    IN  IF credentialsJson # KVNull THEN JSONparse(credentialsJson) ELSE JsNull

\* slip: a missing record is read as an object, not as null
getStoredTokens_neverNull(store) ==
    IF KVget(store, TokKey) = KVNull
    THEN [access_token |-> "undefined"]
    ELSE JSONparse(KVget(store, TokKey))

getStoredTokens(store) ==
    LET tokensJson == KVget(store, TokKey)
    IN  IF tokensJson # KVNull THEN JSONparse(tokensJson) ELSE JsNull

----------------------------------------------------------------------------
(* Responses *)

corsHeaders == TRUE
NoCors == FALSE

Response(status, cors, ctype, body) ==
    [kind |-> "response", status |-> status, cors |-> cors, ctype |-> ctype,
     body |-> body, location |-> [url |-> "none"]]

\* Response.redirect(url, 302): only a Location header
Redirect(loc) ==
    [kind |-> "response", status |-> 302, cors |-> NoCors, ctype |-> "none",
     body |-> [page |-> "none"], location |-> loc]

\* the handler's promise rejects
Rejected == [kind |-> "rejected"]

NoResp == [kind |-> "none"]

\* export default fetch(): `return handleX(request, env)` hands the handler's
\* promise back without awaiting it, so the surrounding try/catch sees no
\* rejection and the outcome of the handler is the outcome of the request
fetchOutcome(handlerOutcome) == handlerOutcome

----------------------------------------------------------------------------------------------------------------------------------------
(* Requests *)

Methods == {"GET", "POST"}

None == [none |-> TRUE]

Idle == [pc |-> "idle", route |-> "none", method |-> "none",
         in |-> None, loc |-> None, log |-> <<>>]

NoLast == [route |-> "none", method |-> "none", in |-> None, loc |-> None,
           log |-> <<>>, resp |-> NoResp]

\* slot r can take a new request
Free(r) == req[r].pc = "idle"

\* the request in slot r completes in this step with the handler outcome out
Finish(r, route, method, in, loc, log, out) ==
    /\ req' = [req EXCEPT ![r] = Idle]
    /\ last' = [route |-> route, method |-> method, in |-> in, loc |-> loc,
                log |-> log, resp |-> fetchOutcome(out)]
    /\ stale' = stale \ {r}

\* the request in slot r is suspended at its next await
Suspend(r, pc, route, method, in, loc, log) ==
    /\ req' = [req EXCEPT ![r] =
                 [pc |-> pc, route |-> route, method |-> method, in |-> in,
                  loc |-> loc, log |-> log]]
    /\ UNCHANGED <<last, stale>>

Get(k) == [op |-> "get", key |-> k]
Put(k) == [op |-> "put", key |-> k]
Delete(k) == [op |-> "delete", key |-> k]
Fetch(url, auth) == [op |-> "fetch", url |-> url, auth |-> auth]

----------------------------------------------------------------------------
Init ==
    /\ kv = [k \in Keys |-> Absent]
    /\ req = [r \in Req |-> Idle]
    /\ last = NoLast
    /\ now = 0
    /\ stale = {}

\* time passes
Tick ==
    /\ now < MaxClock
    /\ now' = now + 1
    /\ UNCHANGED <<kv, req, last, stale>>

\* slot r holds a request that has written key k
WrittenInFlight(r, k) == \E i \in 1..Len(req[r].log) : req[r].log[i] = Put(k)

\* slip: the Credentials record is stored with a TTL too and expires
Expire_anyEntry(k) ==
    /\ kv[k].present
    /\ \A r \in Req : ~WrittenInFlight(r, k)
    /\ kv' = KVdelete(kv, k)
    /\ UNCHANGED <<req, last, now, stale>>

\* the store drops an entry written with expirationTtl once the TTL is over;
\* a TTL (at least 600 seconds) outlasts the request that wrote the entry
Expire(k) ==
    /\ kv[k].present
    /\ kv[k].ttl # NoTtl
    /\ \A r \in Req : ~WrittenInFlight(r, k)
    /\ kv' = KVdelete(kv, k)
    /\ UNCHANGED <<req, last, now, stale>>

----------------------------------------------------------------------------
(* fetch(): OPTIONS preflight and unknown paths *)

Paths == {"/", "/setup", "/credentials", "/callback", "/now-playing",
          "/recent", "/health", "/other"}

fetchOptions(r) ==
    /\ Free(r)
    /\ \E p \in Paths :
        /\ req' = req
        /\ last' = [route |-> "preflight", method |-> "OPTIONS",
                    in |-> [path |-> p], loc |-> None,
                    log |-> <<>>,
                    resp |-> Response(200, corsHeaders, "none", [page |-> "none"])]
    /\ UNCHANGED <<kv, now, stale>>

fetchNotFound(r) ==
    /\ Free(r)
    /\ \E m \in Methods :
        /\ req' = req
        /\ last' = [route |-> "/other", method |-> m, in |-> None, loc |-> None,
                    log |-> <<>>,
                    resp |-> Response(404, corsHeaders, "none", [page |-> "Not Found"])]
    /\ UNCHANGED <<kv, now, stale>>

----------------------------------------------------------------------------
(* handleRoot *)

\* slip: the inner test repeats the credentials instead of reading the tokens
setupStatus_tokensIgnored(storedCredentials, storedTokens) ==
    IF storedCredentials # JsNull
    THEN IF storedCredentials # JsNull
         THEN [setupStatus |-> "complete", nextAction |-> "/now-playing",
               nextActionText |-> "View Now Playing"]
         ELSE [setupStatus |-> "credentials_only", nextAction |-> "/setup",
               nextActionText |-> "Connect Spotify Account"]
    ELSE [setupStatus |-> "not_started", nextAction |-> "/credentials",
          nextActionText |-> "Setup Credentials"]

\* lines 76-90: the status block of the landing page
setupStatus(storedCredentials, storedTokens) ==
    IF storedCredentials # JsNull
    THEN IF storedTokens # JsNull
         THEN [setupStatus |-> "complete", nextAction |-> "/now-playing",
               nextActionText |-> "View Now Playing"]
         ELSE [setupStatus |-> "credentials_only", nextAction |-> "/setup",
               nextActionText |-> "Connect Spotify Account"]
    ELSE [setupStatus |-> "not_started", nextAction |-> "/credentials",
          nextActionText |-> "Setup Credentials"]

handleRoot_getCredentials(r) ==
    /\ Free(r)
    /\ Suspend(r, "root_tokens", "/", "GET", None,
               [storedCredentials |-> getStoredCredentials(kv)],
               <<Get(CredKey)>>)
    /\ UNCHANGED <<kv, now>>

handleRoot_getTokens(r) ==
    /\ req[r].pc = "root_tokens"
    /\ LET storedTokens == getStoredTokens(kv)
           st == setupStatus(req[r].loc.storedCredentials, storedTokens)
       IN  Finish(r, "/", req[r].method, req[r].in,
                  [storedCredentials |-> req[r].loc.storedCredentials,
                   storedTokens |-> storedTokens],
                  Append(req[r].log, Get(TokKey)),
                  Response(200, corsHeaders, "text/html", [page |-> "root"] @@ st))
    /\ UNCHANGED <<kv, now>>

----------------------------------------------------------------------------
(* handleSetup *)

\* origin of request.url
Origins == {"https://proxy.example"}

scope == "user-read-currently-playing user-read-recently-played user-read-playback-state"

\* slip: the client id is taken from the environment binding, not the store
authUrl_envClientId(client_id, redirectUri, state) ==
    [url |-> "https://accounts.spotify.com/authorize", response_type |-> "code",
     client_id |-> <<"e", "n", "v">>, scope |-> scope,
     redirect_uri |-> redirectUri, state |-> state]

\* lines 262-268
authUrl(client_id, redirectUri, state) ==
    [url |-> "https://accounts.spotify.com/authorize", response_type |-> "code",
     client_id |-> client_id, scope |-> scope, redirect_uri |-> redirectUri,
     state |-> state]

LocalUrl(origin, path) == [url |-> path, origin |-> origin]

redirectUriOf(origin) == <<origin, "/callback">>

\* slip: the method is not looked at, every request starts the authorization
handleSetup_getCredentials_anyMethod(r) ==
    /\ Free(r)
    /\ \E m \in Methods, o \in Origins :
        LET storedCredentials == getStoredCredentials(kv)
            in == [origin |-> o]
            loc == [storedCredentials |-> storedCredentials]
            log == <<Get(CredKey)>>
        IN  IF storedCredentials = JsNull
            THEN Finish(r, "/setup", m, in, loc, log,
                        Redirect(LocalUrl(o, "/credentials")))
            ELSE Suspend(r, "setup_put", "/setup", m, in, loc, log)
    /\ UNCHANGED <<kv, now>>

\* slip: the Credentials are looked at in the POST branch only
handleSetup_getCredentials_postOnly(r) ==
    /\ Free(r)
    /\ \E m \in Methods, o \in Origins :
        LET storedCredentials == getStoredCredentials(kv)
            in == [origin |-> o]
            loc == [storedCredentials |-> storedCredentials]
            log == <<Get(CredKey)>>
        IN  IF m # "POST"
            THEN Finish(r, "/setup", m, in, loc, log,
                        Response(200, corsHeaders, "text/html", [page |-> "setup"]))
            ELSE IF storedCredentials = JsNull
            THEN Finish(r, "/setup", m, in, loc, log,
                        Redirect(LocalUrl(o, "/credentials")))
            ELSE Suspend(r, "setup_put", "/setup", m, in, loc, log)
    /\ UNCHANGED <<kv, now>>

\* lines 238-255 and 273-280, up to the put of the state marker
handleSetup_getCredentials(r) ==
    /\ Free(r)
    /\ \E m \in Methods, o \in Origins :
        LET storedCredentials == getStoredCredentials(kv)
            in == [origin |-> o]
            loc == [storedCredentials |-> storedCredentials]
            log == <<Get(CredKey)>>
        IN  IF storedCredentials = JsNull
            THEN Finish(r, "/setup", m, in, loc, log,
                        Redirect(LocalUrl(o, "/credentials")))
            ELSE IF m = "POST"
            THEN Suspend(r, "setup_put", "/setup", m, in, loc, log)
            ELSE Finish(r, "/setup", m, in, loc, log,
                        Response(200, corsHeaders, "text/html", [page |-> "setup"]))
    /\ UNCHANGED <<kv, now>>

\* the callbacks in flight that have read the marker of state
Readers(state) ==
    {r2 \in Req : /\ req[r2].route = "/callback"
                  /\ req[r2].pc # "idle"
                  /\ req[r2].in.query.state = state}

handleSetup_putState(r) ==
    /\ req[r].pc = "setup_put"
    /\ \E rnd \in RandomDraws(StateLen) :
        LET state == generateRandomString(StateLen, rnd)
            redirectUri == redirectUriOf(req[r].in.origin)
        IN  /\ kv' = KVput(kv, StateKey(state), RawText("pending"), StateTtl)
            /\ req' = [req EXCEPT ![r] = Idle]
            /\ last' = [route |-> "/setup", method |-> req[r].method,
                        in |-> req[r].in,
                        loc |-> [storedCredentials |-> req[r].loc.storedCredentials,
                                 state |-> state],
                        log |-> Append(req[r].log, Put(StateKey(state))),
                        resp |-> fetchOutcome(
                            Redirect(authUrl(req[r].loc.storedCredentials.client_id,
                                             redirectUri, state)))]
            /\ stale' = stale \cup Readers(state)
    /\ UNCHANGED now

----------------------------------------------------------------------------
(* handleCredentials *)

IdA == Rep("a", 32)
IdB == [i \in 1..MinClientIdLen |-> IF i % 2 = 0 THEN "B" ELSE "7"]
IdShort == Rep("a", MinClientIdLen - 1)
IdDash == [i \in 1..31 |-> IF i = 9 THEN "-" ELSE "c"]
SecA == <<"s", "A">>
SecB == <<"s", "B">>

\* the form bodies the model submits
CredentialForms ==
    { [client_id |-> IdA, client_secret |-> SecA],
      [client_id |-> IdB, client_secret |-> SecB],
      [client_id |-> IdShort, client_secret |-> SecA],
      [client_id |-> IdDash, client_secret |-> SecA],
      [client_id |-> <<>>, client_secret |-> SecA],
      [client_id |-> NullStr, client_secret |-> SecB],
      [client_id |-> IdA, client_secret |-> <<>>],
      [client_id |-> IdB, client_secret |-> NullStr] }

\* line 297: both fields given
bothProvided(clientId, clientSecret) == Truthy(clientId) /\ Truthy(clientSecret)

\* slip: the character test is left out
validClientId_lengthOnly(clientId) == ~(Len(clientId) < MinClientIdLen)

\* line 314: the id looks like a Spotify client id
validClientId(clientId) ==
    ~(Len(clientId) < MinClientIdLen \/ ~matchAlnum(clientId))

credentialsPage(errorMessage) == [page |-> "credentials", error |-> errorMessage]

\* slip: the form is merged into the stored record, whose secret survives
credentialsRecord_merge(clientId, clientSecret, stored, time) ==
    IF stored = JsNull
    THEN [client_id |-> clientId, client_secret |-> clientSecret, created_at |-> time]
    ELSE [client_id |-> clientId, client_secret |-> stored.client_secret,
          created_at |-> time]

\* lines 331-335: the record built from the form; the stored record is not read
credentialsRecord(clientId, clientSecret, stored, time) ==
    [client_id |-> clientId, client_secret |-> clientSecret, created_at |-> time]

\* history, kept with an accepted submission: the request that completed just
\* before was a POST /setup that stored a marker and redirected to the
\* authorize URL with this client_id
PendingAuthorization ==
    IF /\ last.route = "/setup"
       /\ last.resp.kind = "response"
       /\ last.resp.location.url = "https://accounts.spotify.com/authorize"
    THEN [state |-> last.resp.location.state,
          client_id |-> last.resp.location.client_id]
    ELSE None

\* slip: a new Credentials record throws the Tokens record away
handleCredentials_post_dropTokens(r) ==
    /\ Free(r)
    /\ \E form \in CredentialForms, o \in Origins :
        LET clientId == form.client_id
            clientSecret == form.client_secret
            in == [origin |-> o, form |-> form]
        IN  IF ~bothProvided(clientId, clientSecret)
            THEN /\ Finish(r, "/credentials", "POST", in, None, <<>>,
                        Response(400, corsHeaders, "text/html",
                            credentialsPage("Please provide both Client ID and Client Secret")))
                 /\ UNCHANGED kv
            ELSE IF ~validClientId(clientId)
            THEN /\ Finish(r, "/credentials", "POST", in, None, <<>>,
                        Response(400, corsHeaders, "text/html",
                            credentialsPage("Invalid Client ID format. Please check your Spotify app credentials.")))
                 /\ UNCHANGED kv
            ELSE LET credentials ==
                        credentialsRecord(clientId, clientSecret,
                                          getStoredCredentials(kv), now)
                 IN  /\ kv' = KVdelete(KVput(kv, CredKey,
                                             JSONstringify(credentials), NoTtl),
                                       TokKey)
                     /\ Finish(r, "/credentials", "POST", in,
                               [credentials |-> credentials,
                                pending |-> PendingAuthorization],
                               <<Put(CredKey)>>,
                               Redirect(LocalUrl(o, "/setup")))
    /\ UNCHANGED now

\* lines 286-358, the POST branch
handleCredentials_post(r) ==
    /\ Free(r)
    /\ \E form \in CredentialForms, o \in Origins :
        LET clientId == form.client_id
            clientSecret == form.client_secret
            in == [origin |-> o, form |-> form]
        IN  IF ~bothProvided(clientId, clientSecret)
            THEN /\ Finish(r, "/credentials", "POST", in, None, <<>>,
                        Response(400, corsHeaders, "text/html",
                            credentialsPage("Please provide both Client ID and Client Secret")))
                 /\ UNCHANGED kv
            ELSE IF ~validClientId(clientId)
            THEN /\ Finish(r, "/credentials", "POST", in, None, <<>>,
                        Response(400, corsHeaders, "text/html",
                            credentialsPage("Invalid Client ID format. Please check your Spotify app credentials.")))
                 /\ UNCHANGED kv
            ELSE LET credentials ==
                        credentialsRecord(clientId, clientSecret,
                                          getStoredCredentials(kv), now)
                 IN  /\ kv' = KVput(kv, CredKey, JSONstringify(credentials), NoTtl)
                     /\ Finish(r, "/credentials", "POST", in,
                               [credentials |-> credentials,
                                pending |-> PendingAuthorization],
                               <<Put(CredKey)>>,
                               Redirect(LocalUrl(o, "/setup")))
    /\ UNCHANGED now

\* slip: the put is awaited outside the try block, its rejection is not caught
handleCredentials_putFails_uncaught(r) ==
    /\ Free(r)
    /\ \E form \in CredentialForms, o \in Origins :
        /\ bothProvided(form.client_id, form.client_secret)
        /\ validClientId(form.client_id)
        /\ Finish(r, "/credentials", "POST", [origin |-> o, form |-> form],
                  [credentials |->
                      credentialsRecord(form.client_id, form.client_secret,
                                        getStoredCredentials(kv), now)],
                  <<Put(CredKey)>>, Rejected)
    /\ UNCHANGED <<kv, now>>

\* lines 337-357: the put of a valid submission rejects, so nothing is written;
\* the catch block of the POST branch answers 500
handleCredentials_putFails(r) ==
    /\ Free(r)
    /\ \E form \in CredentialForms, o \in Origins :
        /\ bothProvided(form.client_id, form.client_secret)
        /\ validClientId(form.client_id)
        /\ Finish(r, "/credentials", "POST", [origin |-> o, form |-> form],
                  [credentials |->
                      credentialsRecord(form.client_id, form.client_secret,
                                        getStoredCredentials(kv), now)],
                  <<Put(CredKey)>>,
                  Response(500, corsHeaders, "text/html",
                      credentialsPage("Error processing credentials. Please try again.")))
    /\ UNCHANGED <<kv, now>>

handleCredentials_get(r) ==
    /\ Free(r)
    /\ \E o \in Origins :
        Finish(r, "/credentials", "GET", [origin |-> o], None, <<>>,
               Response(200, corsHeaders, "text/html", credentialsPage("none")))
    /\ UNCHANGED <<kv, now>>

(* handleCredentials once more, cut at each of its awaits: the form is read  *)
(* and validated first (await request.formData()), the record is built and   *)
(* stored when the request runs on.                                          *)

\* lines 291-328: the form is parsed and validated
handleCredentials_formData(r) ==
    /\ Free(r)
    /\ \E form \in CredentialForms, o \in Origins :
        LET clientId == form.client_id
            clientSecret == form.client_secret
            in == [origin |-> o, form |-> form]
        IN  IF ~bothProvided(clientId, clientSecret)
            THEN Finish(r, "/credentials", "POST", in, None, <<>>,
                        Response(400, corsHeaders, "text/html",
                            credentialsPage("Please provide both Client ID and Client Secret")))
            ELSE IF ~validClientId(clientId)
            THEN Finish(r, "/credentials", "POST", in, None, <<>>,
                        Response(400, corsHeaders, "text/html",
                            credentialsPage("Invalid Client ID format. Please check your Spotify app credentials.")))
            ELSE Suspend(r, "cred_put", "/credentials", "POST", in,
                         [clientId |-> clientId, clientSecret |-> clientSecret],
                         <<>>)
    /\ UNCHANGED <<kv, now>>

\* slip: the secret of a stored record is kept, only the id is replaced
handleCredentials_put_keepSecret(r) ==
    /\ req[r].pc = "cred_put"
    /\ LET stored == getStoredCredentials(kv)
           credentials ==
               [client_id |-> req[r].loc.clientId,
                client_secret |-> IF stored = JsNull THEN req[r].loc.clientSecret
                                  ELSE stored.client_secret,
                created_at |-> now]
       IN  /\ kv' = KVput(kv, CredKey, JSONstringify(credentials), NoTtl)
           /\ Finish(r, "/credentials", "POST", req[r].in,
                     [credentials |-> credentials], <<Put(CredKey)>>,
                     Redirect(LocalUrl(req[r].in.origin, "/setup")))
    /\ UNCHANGED now

\* lines 330-343: the record is built from the form and stored
handleCredentials_put(r) ==
    /\ req[r].pc = "cred_put"
    /\ LET credentials ==
               credentialsRecord(req[r].loc.clientId, req[r].loc.clientSecret,
                                 getStoredCredentials(kv), now)
       IN  /\ kv' = KVput(kv, CredKey, JSONstringify(credentials), NoTtl)
           /\ Finish(r, "/credentials", "POST", req[r].in,
                     [credentials |-> credentials], <<Put(CredKey)>>,
                     Redirect(LocalUrl(req[r].in.origin, "/setup")))
    /\ UNCHANGED now

----------------------------------------------------------------------------
(* handleCallback and exchangeCodeForTokens *)

Code1 == <<"c", "1">>
AccessDenied == <<"access_denied">>

\* the query strings the model sends to /callback
CallbackQueries ==
    {[code |-> Code1, state |-> s, error |-> NullStr] : s \in StateUniverse}
    \cup {[code |-> Code1, state |-> s, error |-> AccessDenied] : s \in GeneratedStates}
    \cup {[code |-> NullStr, state |-> s, error |-> NullStr] : s \in GeneratedStates}
    \cup {[code |-> Code1, state |-> NullStr, error |-> NullStr],
          [code |-> Code1, state |-> <<>>, error |-> NullStr]}

\* what the token endpoint may answer: a non-success status, a token
\* payload, or a success status with a body that is not JSON
TokenPayloads ==
    { [access_token |-> "tokA", refresh_token |-> "refA", expires_in |-> 3600,
       token_type |-> "Bearer", scope |-> scope],
      [access_token |-> "tokB", refresh_token |-> "refB", expires_in |-> 1800,
       token_type |-> "Bearer", scope |-> scope] }

NoBody == [body |-> "empty"]
JsonBody(o) == [body |-> "json", obj |-> o]

TokenAnswers ==
    {[ok |-> FALSE, statusText |-> "Bad Request", body |-> NoBody]}
    \cup {[ok |-> TRUE, statusText |-> "OK", body |-> JsonBody(p)] : p \in TokenPayloads}
    \cup {[ok |-> TRUE, statusText |-> "OK", body |-> NoBody]}

\* btoa(`${client_id}:${client_secret}`)
btoa(s) == [base64 |-> s]
BasicAuth(credentials) ==
    [scheme |-> "Basic",
     value |-> btoa(credentials.client_id \o <<":">> \o credentials.client_secret)]

TokenUrl == "https://accounts.spotify.com/api/token"

callbackPage == [page |-> "OAuth Success"]

\* slip: compares with undefined, which get() never returns
stateRejected_undefined(storedState) == FALSE

\* line 390: !storedState
stateRejected(storedState) == storedState = KVNull

\* history: this request repeats the state of the callback accepted just before
ReplayOf(q) ==
    /\ last.route = "/callback"
    /\ last.resp.kind = "response"
    /\ \/ last.resp.status = 200
       \/ last.loc = [replay |-> TRUE]
    /\ last.in.query.state = q.state

\* slip: the error parameter is looked at after the state lookup
handleCallback_getState_stateFirst(r) ==
    /\ Free(r)
    /\ \E q \in CallbackQueries, o \in Origins :
        LET in == [origin |-> o, query |-> q]
        IN  IF ~Truthy(q.code) \/ ~Truthy(q.state)
            THEN Finish(r, "/callback", "GET", in, None, <<>>,
                        Response(400, NoCors, "none",
                                 [page |-> "Missing authorization code or state"]))
            ELSE LET storedState == KVget(kv, StateKey(q.state))
                     log == <<Get(StateKey(q.state))>>
                 IN  IF stateRejected(storedState)
                     THEN Finish(r, "/callback", "GET", in,
                                 [replay |-> ReplayOf(q)], log,
                                 Response(400, NoCors, "none",
                                     [page |-> "Invalid or expired state parameter"]))
                     ELSE IF Truthy(q.error)
                     THEN Finish(r, "/callback", "GET", in, None, log,
                                 Response(400, NoCors, "none",
                                     [page |-> "OAuth Error", error |-> q.error]))
                     ELSE Suspend(r, "cb_creds", "/callback", "GET", in,
                                  [storedState |-> storedState], log)
    /\ UNCHANGED <<kv, now>>

\* lines 374-392: the query checks and the lookup of the state marker
handleCallback_getState(r) ==
    /\ Free(r)
    /\ \E q \in CallbackQueries, o \in Origins :
        LET in == [origin |-> o, query |-> q]
        IN  IF Truthy(q.error)
            THEN Finish(r, "/callback", "GET", in, None, <<>>,
                        Response(400, NoCors, "none",
                                 [page |-> "OAuth Error", error |-> q.error]))
            ELSE IF ~Truthy(q.code) \/ ~Truthy(q.state)
            THEN Finish(r, "/callback", "GET", in, None, <<>>,
                        Response(400, NoCors, "none",
                                 [page |-> "Missing authorization code or state"]))
            ELSE LET storedState == KVget(kv, StateKey(q.state))
                     log == <<Get(StateKey(q.state))>>
                 IN  IF stateRejected(storedState)
                     THEN Finish(r, "/callback", "GET", in,
                                 [replay |-> ReplayOf(q)], log,
                                 Response(400, NoCors, "none",
                                     [page |-> "Invalid or expired state parameter"]))
                     ELSE Suspend(r, "cb_creds", "/callback", "GET", in,
                                  [storedState |-> storedState], log)
    /\ UNCHANGED <<kv, now>>

exchangeCodeForTokens_getCredentials(r) ==
    /\ req[r].pc = "cb_creds"
    /\ LET credentials == getStoredCredentials(kv)
           log == Append(req[r].log, Get(CredKey))
       IN  IF credentials = JsNull
           THEN Finish(r, "/callback", req[r].method, req[r].in, req[r].loc, log,
                       Response(400, NoCors, "none",
                                [page |-> "Token exchange failed",
                                 error |-> "No Spotify credentials found. Please complete setup first."]))
           ELSE Suspend(r, "cb_fetch", "/callback", req[r].method, req[r].in,
                        [credentials |-> credentials], log)
    /\ UNCHANGED <<kv, now>>

\* slip: a failed exchange removes the state marker
exchangeCodeForTokens_fetch_cleanup(r) ==
    /\ req[r].pc = "cb_fetch"
    /\ \E ans \in TokenAnswers :
        LET log == Append(req[r].log,
                          Fetch(TokenUrl, BasicAuth(req[r].loc.credentials)))
        IN  IF ~ans.ok
            THEN /\ Finish(r, "/callback", req[r].method, req[r].in, req[r].loc,
                           Append(log, Delete(StateKey(req[r].in.query.state))),
                           Response(400, NoCors, "none",
                                    [page |-> "Token exchange failed",
                                     error |-> ans.statusText]))
                 /\ kv' = KVdelete(kv, StateKey(req[r].in.query.state))
            ELSE IF ans.body = NoBody
            THEN /\ Finish(r, "/callback", req[r].method, req[r].in, req[r].loc,
                           log, Rejected)
                 /\ kv' = kv
            ELSE /\ Suspend(r, "cb_put", "/callback", req[r].method, req[r].in,
                            [data |-> ans.body.obj], log)
                 /\ kv' = kv
    /\ UNCHANGED now

\* lines 613-636 and 396-400: the token request and what follows a failure
exchangeCodeForTokens_fetch(r) ==
    /\ req[r].pc = "cb_fetch"
    /\ \E ans \in TokenAnswers :
        LET log == Append(req[r].log,
                          Fetch(TokenUrl, BasicAuth(req[r].loc.credentials)))
        IN  IF ~ans.ok
            THEN Finish(r, "/callback", req[r].method, req[r].in, req[r].loc, log,
                        Response(400, NoCors, "none",
                                 [page |-> "Token exchange failed",
                                  error |-> ans.statusText]))
            ELSE IF ans.body = NoBody
            THEN Finish(r, "/callback", req[r].method, req[r].in, req[r].loc, log,
                        Rejected)
            ELSE Suspend(r, "cb_put", "/callback", req[r].method, req[r].in,
                         [data |-> ans.body.obj], log)
    /\ UNCHANGED <<kv, now>>

\* line 406: the expirationTtl of the Tokens record
tokensTtl(data) == TokensTtl

\* slip: the put is never issued
handleCallback_putTokens_noWrite(r) ==
    /\ req[r].pc = "cb_put"
    /\ Suspend(r, "cb_delete", "/callback", req[r].method, req[r].in,
               req[r].loc, Append(req[r].log, Put(TokKey)))
    /\ UNCHANGED <<kv, now>>

handleCallback_putTokens(r) ==
    /\ req[r].pc = "cb_put"
    /\ kv' = KVput(kv, TokKey, JSONstringify(req[r].loc.data),
                   tokensTtl(req[r].loc.data))
    /\ Suspend(r, "cb_delete", "/callback", req[r].method, req[r].in,
               req[r].loc, Append(req[r].log, Put(TokKey)))
    /\ UNCHANGED now

handleCallback_deleteState(r) ==
    /\ req[r].pc = "cb_delete"
    /\ kv' = KVdelete(kv, StateKey(req[r].in.query.state))
    /\ Finish(r, "/callback", req[r].method, req[r].in,
              [data |-> req[r].loc.data, stale |-> r \in stale],
              Append(req[r].log, Delete(StateKey(req[r].in.query.state))),
              Response(200, corsHeaders, "text/html", callbackPage))
    /\ UNCHANGED now

----------------------------------------------------------------------------
(* handleNowPlaying, handleRecent and callSpotifyAPI *)

\* what the resource endpoints may answer
ApiAnswers ==
    { [status |-> 200, body |-> JsonBody([item |-> "track"])],
      [status |-> 200, body |-> NoBody],
      [status |-> 204, body |-> NoBody],
      [status |-> 401, body |-> JsonBody([error |-> "The access token expired"])],
      [status |-> 503, body |-> NoBody] }

\* Response.ok
ok(status) == status >= 200 /\ status <= 299

BearerAuth(accessToken) == [scheme |-> "Bearer", value |-> accessToken]

NowPlayingUrl == "https://api.spotify.com/v1/me/player/currently-playing"
RecentUrl == "https://api.spotify.com/v1/me/player/recently-played?limit=10"

\* slip: the status option is left out, and a Response defaults to 200
noTokensResponse_defaultStatus ==
    Response(200, corsHeaders, "application/json",
             [error |-> "No valid tokens found. Please complete OAuth setup first."])

noTokensResponse ==
    Response(401, corsHeaders, "application/json",
             [error |-> "No valid tokens found. Please complete OAuth setup first."])

\* response.json() followed by JSON.stringify(data); json() of an empty body throws
passThrough(spotifyResponse) ==
    IF spotifyResponse.body = NoBody
    THEN Rejected
    ELSE Response(200, corsHeaders, "application/json",
                  JSONstringify(spotifyResponse.body.obj))

\* slip: no special case for 204
nowPlayingResponse_no204(spotifyResponse) ==
    IF ~ok(spotifyResponse.status)
    THEN Response(spotifyResponse.status, corsHeaders, "application/json",
                  [error |-> "Failed to fetch current track"])
    ELSE passThrough(spotifyResponse)

\* lines 463-494
nowPlayingResponse(spotifyResponse) ==
    IF spotifyResponse.status = 204
    THEN Response(200, corsHeaders, "application/json",
                  [playing |-> FALSE, message |-> "No track currently playing"])
    ELSE IF ~ok(spotifyResponse.status)
    THEN Response(spotifyResponse.status, corsHeaders, "application/json",
                  [error |-> "Failed to fetch current track"])
    ELSE passThrough(spotifyResponse)

\* slip: an upstream failure is answered 502, whatever its status
recentResponse_badGateway(spotifyResponse) ==
    IF ~ok(spotifyResponse.status)
    THEN Response(502, corsHeaders, "application/json",
                  [error |-> "Failed to fetch recent tracks"])
    ELSE passThrough(spotifyResponse)

\* lines 522-541
recentResponse(spotifyResponse) ==
    IF ~ok(spotifyResponse.status)
    THEN Response(spotifyResponse.status, corsHeaders, "application/json",
                  [error |-> "Failed to fetch recent tracks"])
    ELSE passThrough(spotifyResponse)

\* history, kept with a 401 answer: the request that completed just before was
\* an accepted callback, so the Tokens record it stored has since expired
TokensJustStored ==
    /\ last.route = "/callback"
    /\ last.resp.kind = "response"
    /\ last.resp.status = 200

handleNowPlaying_getTokens(r) ==
    /\ Free(r)
    /\ LET tokens == getStoredTokens(kv)
       IN  IF tokens = JsNull
           THEN Finish(r, "/now-playing", "GET", None,
                       [tokens |-> tokens, lapsed |-> TokensJustStored],
                       <<Get(TokKey)>>, noTokensResponse)
           ELSE Suspend(r, "np_fetch", "/now-playing", "GET", None,
                        [tokens |-> tokens], <<Get(TokKey)>>)
    /\ UNCHANGED <<kv, now>>

handleNowPlaying_fetch(r) ==
    /\ req[r].pc = "np_fetch"
    /\ \E spotifyResponse \in ApiAnswers :
        Finish(r, "/now-playing", req[r].method, req[r].in,
               req[r].loc @@ [spotifyResponse |-> spotifyResponse],
               Append(req[r].log,
                      Fetch(NowPlayingUrl, BearerAuth(req[r].loc.tokens.access_token))),
               nowPlayingResponse(spotifyResponse))
    /\ UNCHANGED <<kv, now>>

handleRecent_getTokens(r) ==
    /\ Free(r)
    /\ LET tokens == getStoredTokens(kv)
       IN  IF tokens = JsNull
           THEN Finish(r, "/recent", "GET", None,
                       [tokens |-> tokens, lapsed |-> TokensJustStored],
                       <<Get(TokKey)>>, noTokensResponse)
           ELSE Suspend(r, "recent_fetch", "/recent", "GET", None,
                        [tokens |-> tokens], <<Get(TokKey)>>)
    /\ UNCHANGED <<kv, now>>

handleRecent_fetch(r) ==
    /\ req[r].pc = "recent_fetch"
    /\ \E spotifyResponse \in ApiAnswers :
        Finish(r, "/recent", req[r].method, req[r].in,
               req[r].loc @@ [spotifyResponse |-> spotifyResponse],
               Append(req[r].log,
                      Fetch(RecentUrl, BearerAuth(req[r].loc.tokens.access_token))),
               recentResponse(spotifyResponse))
    /\ UNCHANGED <<kv, now>>

----------------------------------------------------------------------------
(* handleHealth *)

\* slip: next_step tests the tokens before the credentials
healthBody_tokensFirst(credentials, tokens, time) ==
    LET hasValidCredentials == credentials # JsNull
        hasValidTokens == tokens # JsNull
    IN  [status |-> "healthy",
         timestamp |-> time,
         environment |-> "unknown",
         credentials_configured |-> hasValidCredentials,
         oauth_configured |-> hasValidTokens,
         setup_complete |-> hasValidCredentials /\ hasValidTokens,
         next_step |-> IF ~hasValidTokens
                       THEN "Complete OAuth setup at /setup"
                       ELSE IF ~hasValidCredentials
                       THEN "Configure Spotify credentials at /credentials"
                       ELSE "Ready to use API endpoints"]

\* lines 550-564
healthBody(credentials, tokens, time) ==
    LET hasValidCredentials == credentials # JsNull
        hasValidTokens == tokens # JsNull
    IN  [status |-> "healthy",
         timestamp |-> time,
         environment |-> "unknown",
         credentials_configured |-> hasValidCredentials,
         oauth_configured |-> hasValidTokens,
         setup_complete |-> hasValidCredentials /\ hasValidTokens,
         next_step |-> IF ~hasValidCredentials
                       THEN "Configure Spotify credentials at /credentials"
                       ELSE IF ~hasValidTokens
                       THEN "Complete OAuth setup at /setup"
                       ELSE "Ready to use API endpoints"]

handleHealth_getCredentials(r) ==
    /\ Free(r)
    /\ \E m \in Methods :
        Suspend(r, "health_tokens", "/health", m, None,
                [credentials |-> getStoredCredentials(kv)], <<Get(CredKey)>>)
    /\ UNCHANGED <<kv, now>>

handleHealth_getTokens(r) ==
    /\ req[r].pc = "health_tokens"
    /\ LET tokens == getStoredTokens(kv)
       IN  Finish(r, "/health", req[r].method, req[r].in,
                  [credentials |-> req[r].loc.credentials, tokens |-> tokens],
                  Append(req[r].log, Get(TokKey)),
                  Response(200, corsHeaders, "application/json",
                           healthBody(req[r].loc.credentials, tokens, now)))
    /\ UNCHANGED <<kv, now>>

----------------------------------------------------------------------------
(* One request at a time: the single-request semantics of a worker          *)
(* invocation, with the clock and the store's expiry running in between     *)
(* the steps of the request.                                                *)

Main == 1

Next ==
    \/ Tick
    \/ \E k \in Keys : Expire(k)
    \/ fetchOptions(Main)
    \/ fetchNotFound(Main)
    \/ handleRoot_getCredentials(Main)
    \/ handleRoot_getTokens(Main)
    \/ handleSetup_getCredentials(Main)
    \/ handleSetup_putState(Main)
    \/ handleCredentials_post(Main)
    \/ handleCredentials_get(Main)
    \/ handleCallback_getState(Main)
    \/ exchangeCodeForTokens_getCredentials(Main)
    \/ exchangeCodeForTokens_fetch(Main)
    \/ handleCallback_putTokens(Main)
    \/ handleCallback_deleteState(Main)
    \/ handleNowPlaying_getTokens(Main)
    \/ handleNowPlaying_fetch(Main)
    \/ handleRecent_getTokens(Main)
    \/ handleRecent_fetch(Main)
    \/ handleHealth_getCredentials(Main)
    \/ handleHealth_getTokens(Main)

Spec == Init /\ [][Next]_vars

(* Requests that overlap: the state-changing routes run in every slot, each  *)
(* await being a point where the other requests may take a step.            *)

NextConc ==
    \/ \E k \in Keys : Expire(k)
    \/ \E r \in Req : handleSetup_getCredentials(r)
    \/ \E r \in Req : handleSetup_putState(r)
    \/ \E r \in Req : handleCredentials_post(r)
    \/ \E r \in Req : handleCallback_getState(r)
    \/ \E r \in Req : exchangeCodeForTokens_getCredentials(r)
    \/ \E r \in Req : exchangeCodeForTokens_fetch(r)
    \/ \E r \in Req : handleCallback_putTokens(r)
    \/ \E r \in Req : handleCallback_deleteState(r)

SpecConc == Init /\ [][NextConc]_vars

(* The sequential worker with a store whose write of the Credentials record  *)
(* may fail.                                                                  *)

NextFault ==
    \/ Next
    \/ handleCredentials_putFails(Main)

SpecFault == Init /\ [][NextFault]_vars

(* Credential submissions that overlap: every slot submits a form, and the   *)
(* submissions run on in any order.                                          *)

NextCred ==
    \/ Tick
    \/ \E r \in Req : handleCredentials_formData(r)
    \/ \E r \in Req : handleCredentials_put(r)

SpecCred == Init /\ [][NextCred]_vars

----------------------------------------------------------------------------
(* Properties *)

\* the characters of a string, and what the claims call a well-formed form
AlnumChars == Range(Upper) \cup Range(Lower) \cup Range(Digits)
Empty(s) == s = NullStr \/ s = <<>>
ClaimInvalidForm(f) ==
    \/ Len(f.client_id) < 30
    \/ \E i \in 1..Len(f.client_id) : f.client_id[i] \notin AlnumChars
    \/ Empty(f.client_id)
    \/ Empty(f.client_secret)

CredsPresent == kv[CredKey].present
TokensPresent == kv[TokKey].present
MarkerPresent(s) == kv[StateKey(s)].present

HasOp(log, kind) == \E i \in 1..Len(log) : log[i].op = kind
CountOp(log, o) == Cardinality({i \in 1..Len(log) : log[i] = o})

IsResponse(rec, status) == rec.resp.kind = "response" /\ rec.resp.status = status

\* the table of section 4.1
StatusTable(credentials_present, tokens_present) ==
    IF ~credentials_present THEN <<"not_started", "/credentials">>
    ELSE IF ~tokens_present THEN <<"credentials_only", "/setup">>
    ELSE <<"complete", "/now-playing">>

\* one step of the worker, for C1
C1_Step ==
    handleRoot_getTokens(Main) =>
        /\ IsResponse(last', 200)
        /\ last'.resp.body.setupStatus \in {"not_started", "credentials_only", "complete"}
        /\ <<last'.resp.body.setupStatus, last'.resp.body.nextAction>>
             = StatusTable(CredsPresent, TokensPresent)
        /\ kv' = kv
\* C1: whenever the root handler completes, the status it shows is one of
\* not_started / credentials_only / complete and, with its next action, is the
\* entry of the 4.1 table for (Credentials stored?, Tokens stored?) in the
\* store at that moment.
C1_RootStatusMatchesTable == [][C1_Step]_vars

C1_Witness ==
    /\ last.route = "/"
    /\ last.resp.body.setupStatus = "credentials_only"
    /\ CredsPresent /\ ~TokensPresent

\* one step of the worker, for C2
C2_Step ==
    (/\ last'.route = "/credentials" /\ last'.method = "POST"
     /\ handleCredentials_post(Main)
     /\ ClaimInvalidForm(last'.in.form)) =>
        /\ IsResponse(last', 400)
        /\ kv' = kv
\* C2: a POST /credentials whose client id is shorter than 30 characters or
\* has a non-alphanumeric character, or whose id or secret is empty, is
\* answered 400 and leaves every store key as it was.
C2_InvalidCredentialsRejected == [][C2_Step]_vars

C2_Witness ==
    /\ last.route = "/credentials" /\ last.method = "POST"
    /\ last.in.form.client_id = IdDash
    /\ IsResponse(last, 400)
    /\ CredsPresent

\* one step of the worker, for C3
C3_Step ==
    /\ (/\ last'.route = "/credentials" /\ last'.method = "POST"
        /\ handleCredentials_post(Main)
        /\ ~ClaimInvalidForm(last'.in.form)) =>
          /\ kv'[CredKey].present
          /\ JSONparse(kv'[CredKey].value).client_id = last'.in.form.client_id
          /\ JSONparse(kv'[CredKey].value).client_secret = last'.in.form.client_secret
          /\ DOMAIN JSONparse(kv'[CredKey].value)
               = {"client_id", "client_secret", "created_at"}
          /\ IsResponse(last', 302)
          /\ last'.resp.location.url = "/setup"
    /\ kv'[CredKey] # kv[CredKey] =>
          /\ last'.route = "/credentials" /\ last'.method = "POST"
          /\ handleCredentials_post(Main)
          /\ ~ClaimInvalidForm(last'.in.form)
\* C3: a valid POST /credentials leaves the Credentials record holding exactly
\* the client_id and client_secret of that submission and answers 302 to
\* /setup; no other step changes the record, so after any sequence of valid
\* submissions the record is that of the most recent one.
C3_LastSubmissionWins == [][C3_Step]_vars

\* a submission of B's values made after setup had been completed, which
\* takes an earlier submission
C3_Witness ==
    /\ last.route = "/credentials" /\ last.method = "POST"
    /\ IsResponse(last, 302)
    /\ last.in.form.client_id = IdB
    /\ JSONparse(kv[CredKey].value).client_secret = SecB
    /\ TokensPresent

\* the query of the callback that starts in this step
StartedQuery ==
    IF req'[Main].pc # "idle" THEN req'[Main].in.query ELSE last'.in.query

\* one step of the worker, for C4
C4_Step ==
    (/\ handleCallback_getState(Main)
     /\ Truthy(StartedQuery.code) /\ Truthy(StartedQuery.state)
     /\ ~Truthy(StartedQuery.error)
     /\ ~MarkerPresent(StartedQuery.state)) =>
        /\ req'[Main].pc = "idle"
        /\ IsResponse(last', 400)
        /\ ~HasOp(last'.log, "put") /\ ~HasOp(last'.log, "fetch")
        /\ kv' = kv
\* C4: a /callback with code and state whose marker oauth_state_<state> is not
\* in the store is answered 400 at once: it writes nothing (no Tokens record)
\* and goes on to no upstream call.
C4_UnknownStateRejected == [][C4_Step]_vars

\* a marker that was stored and is gone, and one that never existed
C4_Witness ==
    /\ last.route = "/callback"
    /\ IsResponse(last, 400)
    /\ last.resp.body.page = "Invalid or expired state parameter"
    /\ last.in.query.state \in GeneratedStates
    /\ CredsPresent

\* one step of the worker, for C5
C5_Step ==
    handleCallback_deleteState(Main) =>
        LET k == StateKey(last'.in.query.state)
        IN  /\ IsResponse(last', 200)
            /\ kv'[TokKey].present
            /\ JSONparse(kv'[TokKey].value) = last'.loc.data
            /\ ~kv'[k].present
            /\ CountOp(last'.log, Get(k)) = 1
            /\ CountOp(last'.log, Delete(k)) = 1
            /\ Len(last'.log) = 5
            /\ last'.log[1] = Get(k)
            /\ last'.log[2] = Get(CredKey)
            /\ last'.log[3].op = "fetch" /\ last'.log[3].url = TokenUrl
            /\ last'.log[4] = Put(TokKey)
            /\ last'.log[5] = Delete(k)
\* C5: the step that completes an accepted /callback leaves the Tokens record
\* present and the marker absent and answers 200; the request has read the
\* marker key once and deleted it once, and its store and upstream accesses
\* were, in order: read marker, read credentials, token exchange, write
\* Tokens, delete marker.
C5_AcceptedCallback == [][C5_Step]_vars

C5_Witness ==
    /\ last.route = "/callback"
    /\ IsResponse(last, 200)
    /\ TokensPresent
    /\ ~MarkerPresent(last.in.query.state)
    /\ last.log[5] = Delete(StateKey(last.in.query.state))

\* one step of the worker, for C6
C6_Step ==
    /\ handleCallback_deleteState(Main) =>
          ~kv'[StateKey(last'.in.query.state)].present
    /\ \A s \in StateUniverse :
          (~MarkerPresent(s) /\ kv'[StateKey(s)].present) =>
              /\ req[Main].pc = "setup_put"
              /\ last'.route = "/setup"
              /\ last'.loc.state = s
    /\ (/\ req[Main].pc = "idle"
        /\ handleCallback_getState(Main)
        /\ Truthy(StartedQuery.code) /\ Truthy(StartedQuery.state)
        /\ ~Truthy(StartedQuery.error)
        /\ ~MarkerPresent(StartedQuery.state)) =>
          /\ req'[Main].pc = "idle"
          /\ IsResponse(last', 400)
          /\ kv'[TokKey] = kv[TokKey]
\* C6: state markers are single-use across requests that run one after
\* another: the step that completes an accepted /callback for s leaves the
\* marker of s absent; a marker that is absent comes back only by a POST
\* /setup that generates that very s; and a /callback that starts while the
\* marker of its state is absent is answered 400 and leaves the Tokens record
\* as it was.
C6_MarkerSingleUse == [][C6_Step]_vars

\* a callback repeating the state of the callback accepted just before it
C6_Witness ==
    /\ last.route = "/callback"
    /\ last.loc = [replay |-> TRUE]
    /\ IsResponse(last, 400)
    /\ TokensPresent

\* the callback in slot r has written the Tokens record for a marker that was
\* not stored anew since the callback read it
Accepted(r) == req[r].pc = "cb_delete" /\ r \notin stale

\* C7: of the overlapping /callback requests that carry the same state s and
\* read the one marker stored for s, at most one is accepted, that is goes on
\* to the token exchange and writes the Tokens record.
C7_AtMostOneAccepted ==
    /\ \A r1, r2 \in Req :
          (r1 # r2 /\ Accepted(r1) /\ Accepted(r2)) =>
              req[r1].in.query.state # req[r2].in.query.state
    /\ \A r \in Req :
          (/\ Accepted(r)
           /\ last.route = "/callback"
           /\ IsResponse(last, 200)
           /\ ~last.loc.stale) =>
              req[r].in.query.state # last.in.query.state

\* one step of the worker, for C8
C8_Step ==
    (/\ req[Main].pc = "idle"
     /\ handleNowPlaying_getTokens(Main) \/ handleRecent_getTokens(Main)
     /\ ~TokensPresent) =>
        /\ req'[Main].pc = "idle"
        /\ IsResponse(last', 401)
        /\ last'.resp.ctype = "application/json"
        /\ "error" \in DOMAIN last'.resp.body
        /\ ~HasOp(last'.log, "fetch")
        /\ ~HasOp(last'.log, "put") /\ ~HasOp(last'.log, "delete")
        /\ kv' = kv
\* C8: a GET /now-playing or GET /recent that finds no Tokens record in the
\* store is answered 401 with a JSON error body at once: no upstream call and
\* no store write.
C8_NoTokensUnauthorized == [][C8_Step]_vars

C8_Witness ==
    /\ last.route = "/recent"
    /\ IsResponse(last, 401)
    /\ CredsPresent /\ ~TokensPresent

\* the upstream answer a data request received, if it got to the upstream call
Upstream(rec) == rec.loc.spotifyResponse
CalledUpstream(rec) ==
    rec.route \in {"/now-playing", "/recent"} /\ HasOp(rec.log, "fetch")

\* C9: a /now-playing request whose upstream call returned 204 is answered 200
\* with playing = false; no /now-playing response has status 204.
C9_NoContentNormalised ==
    /\ (/\ last.route = "/now-playing"
        /\ CalledUpstream(last)
        /\ Upstream(last).status = 204) =>
          /\ IsResponse(last, 200)
          /\ "playing" \in DOMAIN last.resp.body
          /\ last.resp.body.playing = FALSE
    /\ last.route = "/now-playing" => ~IsResponse(last, 204)

C9_Witness ==
    /\ last.route = "/now-playing"
    /\ CalledUpstream(last)
    /\ Upstream(last).status = 204
    /\ IsResponse(last, 200)

\* the next_step of /health that goes with each status of the landing page
NextStepOf(status) ==
    CASE status = "not_started" -> "Configure Spotify credentials at /credentials"
      [] status = "credentials_only" -> "Complete OAuth setup at /setup"
      [] status = "complete" -> "Ready to use API endpoints"

\* one step of the worker, for C10
C10_Step ==
    (req[Main].pc = "health_tokens" /\ handleHealth_getTokens(Main)) =>
        LET h == last'.resp.body
        IN  /\ IsResponse(last', 200)
            /\ h.credentials_configured = CredsPresent
            /\ h.oauth_configured = TokensPresent
            /\ h.setup_complete = (CredsPresent /\ TokensPresent)
            /\ h.next_step =
                 NextStepOf(setupStatus(getStoredCredentials(kv),
                                        getStoredTokens(kv)).setupStatus)
            /\ h.next_step =
                 NextStepOf(StatusTable(CredsPresent, TokensPresent)[1])
            /\ \A i \in 1..Len(last'.log) : last'.log[i].op = "get"
            /\ kv' = kv
\* C10: /health only reads the store and calls no upstream; when it completes,
\* credentials_configured and oauth_configured are the presence of the
\* Credentials and Tokens records in the store, setup_complete is their
\* conjunction, and next_step is the one that goes with the status the landing
\* page computes from the same store.
C10_HealthReportsPresence == [][C10_Step]_vars

\* the empty store
C10_Witness ==
    /\ last.route = "/health"
    /\ ~last.resp.body.setup_complete
    /\ last.resp.body.next_step = "Configure Spotify credentials at /credentials"
    /\ \A k \in Keys : ~kv[k].present

----------------------------------------------------------------------------
(* Claims C11 to C20 *)

AuthorizeUrl == "https://accounts.spotify.com/authorize"

\* one step of the worker, for C11
C11_Step ==
    /\ (/\ req[Main].pc = "idle"
        /\ CredsPresent
        /\ handleSetup_getCredentials(Main)) =>
          \/ req'[Main].pc = "setup_put" /\ req'[Main].method = "POST"
          \/ req'[Main].pc = "idle" /\ last'.method # "POST"
    /\ (/\ req[Main].pc = "setup_put"
        /\ handleSetup_putState(Main)) =>
          /\ CredsPresent
          /\ last'.route = "/setup" /\ last'.method = "POST"
          /\ IsResponse(last', 302)
          /\ last'.resp.location.url = AuthorizeUrl
          /\ last'.resp.location.client_id = JSONparse(kv[CredKey].value).client_id
          /\ LET state == last'.resp.location.state
             IN  /\ Len(state) >= 16
                 /\ \A i \in 1..Len(state) : state[i] \in AlnumChars
                 /\ kv'[StateKey(state)] = Entry(RawText("pending"), 600)
                 /\ last'.log = <<Get(CredKey), Put(StateKey(state))>>
\* C11: with the Credentials stored, a POST /setup is answered 302 to the
\* upstream authorize URL carrying the stored client_id and a state of at
\* least 16 alphanumeric characters; when the response is returned the store
\* holds oauth_state_<state> = "pending" with a TTL of 600 seconds, the marker
\* being written before the redirect is produced.
C11_SetupStartsAuthorization == [][C11_Step]_vars

C11_Witness ==
    /\ last.route = "/setup" /\ last.method = "POST"
    /\ IsResponse(last, 302)
    /\ last.resp.location.url = AuthorizeUrl
    /\ last.resp.location.client_id = IdB
    /\ MarkerPresent(last.resp.location.state)

\* one step of the worker, for C12
C12_Step ==
    /\ (~TokensPresent /\ TokensPresent') =>
          /\ req[Main].pc = "cb_put"
          /\ handleCallback_putTokens(Main)
    /\ (/\ ~TokensPresent
        /\ req[Main].pc = "idle"
        /\ handleNowPlaying_getTokens(Main) \/ handleRecent_getTokens(Main)) =>
          /\ IsResponse(last', 401)
          /\ ~HasOp(last'.log, "fetch")
          /\ ~TokensPresent'
    /\ (/\ ~TokensPresent
        /\ req[Main].pc = "health_tokens"
        /\ handleHealth_getTokens(Main)) =>
          /\ IsResponse(last', 200)
          /\ last'.resp.body.oauth_configured = FALSE
          /\ last'.resp.body.setup_complete = FALSE
          /\ ~TokensPresent'
    /\ (/\ ~TokensPresent
        /\ req[Main].pc = "root_tokens"
        /\ handleRoot_getTokens(Main)) =>
          /\ IsResponse(last', 200)
          /\ last'.resp.body.setupStatus # "complete"
          /\ ~TokensPresent'
\* C12: once the Tokens record has expired it stays absent until a callback
\* stores it again, and while it is absent GET /now-playing and GET /recent
\* are answered 401 without an upstream call, /health reports oauth_configured
\* = false and setup_complete = false and the landing page does not show
\* "complete": expiry is answered as "not configured", never with a 5xx.
C12_ExpiredTokensNotConfigured == [][C12_Step]_vars

\* the Tokens record an accepted callback stored has expired and the next
\* request, GET /now-playing, was answered 401
C12_Witness ==
    /\ last.route = "/now-playing"
    /\ IsResponse(last, 401)
    /\ ~HasOp(last.log, "fetch")
    /\ last.loc.lapsed
    /\ CredsPresent /\ ~TokensPresent

\* one step of the worker, for C13
C13_Step ==
    (/\ req[Main].pc = "idle"
     /\ ~CredsPresent
     /\ handleSetup_getCredentials(Main)) =>
        /\ req'[Main].pc = "idle"
        /\ last'.route = "/setup"
        /\ IsResponse(last', 302)
        /\ last'.resp.location = LocalUrl(last'.in.origin, "/credentials")
        /\ last'.resp.location.url # AuthorizeUrl
        /\ ~HasOp(last'.log, "put")
        /\ kv' = kv
\* C13: with no Credentials stored, a request to /setup, POST or not, is
\* answered 302 to /credentials; no state marker is created and no redirect to
\* the upstream authorize URL is produced.
C13_SetupNeedsCredentials == [][C13_Step]_vars

C13_Witness ==
    /\ last.route = "/setup" /\ last.method = "POST"
    /\ IsResponse(last, 302)
    /\ last.resp.location.url = "/credentials"
    /\ ~CredsPresent
    /\ \A s \in GeneratedStates : ~MarkerPresent(s)

\* the last request was a callback whose token exchange the upstream refused
ExchangeFailed(rec) ==
    /\ rec.route = "/callback"
    /\ IsResponse(rec, 400)
    /\ rec.resp.body.page = "Token exchange failed"
    /\ HasOp(rec.log, "fetch")

\* one step of the worker, for C14
C14_Step ==
    /\ (/\ req[Main].pc = "cb_fetch"
        /\ exchangeCodeForTokens_fetch(Main)) =>
          /\ kv' = kv
          /\ req'[Main].pc = "cb_put" =>
                req'[Main].loc.data \in TokenPayloads
          /\ (req'[Main].pc = "idle" /\ last'.resp.kind = "response") =>
                /\ ExchangeFailed(last')
                /\ ~HasOp(last'.log, "put")
                /\ ~HasOp(last'.log, "delete")
    /\ (/\ req[Main].pc = "idle"
        /\ ExchangeFailed(last)
        /\ MarkerPresent(last.in.query.state)
        /\ handleCallback_getState(Main)) =>
          LET q == IF req'[Main].pc = "idle" THEN last'.in.query
                   ELSE req'[Main].in.query
          IN  q = last.in.query => req'[Main].pc = "cb_creds"
\* C14: a callback with a valid marker whose token request the upstream
\* answers with a non-success status is answered 400; the step writes nothing,
\* so the Tokens record is as it was and the marker is not deleted, and a
\* later callback with the same state, while the marker has not expired,
\* passes the state check again.
C14_FailedExchangeKeepsMarker == [][C14_Step]_vars

\* after a refused exchange a second callback with the same state has passed
\* the state check
C14_Witness ==
    /\ ExchangeFailed(last)
    /\ last.resp.body.error = "Bad Request"
    /\ req[Main].pc = "cb_creds"
    /\ req[Main].in.query = last.in.query
    /\ MarkerPresent(last.in.query.state)
    /\ ~TokensPresent

\* the query of the callback that takes this step
CallbackQueryOf(r) ==
    IF req'[r].pc = "idle" THEN last'.in.query ELSE req'[r].in.query

\* one step of the worker, for C15
C15_Step ==
    (/\ req[Main].pc = "idle"
     /\ handleCallback_getState(Main)) =>
        LET q == CallbackQueryOf(Main)
        IN  /\ ~Empty(q.error) =>
                /\ req'[Main].pc = "idle"
                /\ IsResponse(last', 400)
                /\ last'.log = <<>>
                /\ kv' = kv
            /\ (Empty(q.code) \/ Empty(q.state)) =>
                /\ req'[Main].pc = "idle"
                /\ IsResponse(last', 400)
                /\ ~HasOp(last'.log, "put") /\ ~HasOp(last'.log, "delete")
                /\ ~HasOp(last'.log, "fetch")
                /\ kv' = kv
\* C15: a /callback request that carries an error parameter is answered 400
\* with no store read, write or delete and no upstream call, even when it also
\* carries a code and a state whose marker is stored, which stays stored; a
\* request without code or without state is answered 400 as well.
C15_ErrorCallbackTouchesNothing == [][C15_Step]_vars

\* an error callback with a code and the state of a stored marker
C15_Witness ==
    /\ last.route = "/callback"
    /\ IsResponse(last, 400)
    /\ ~Empty(last.in.query.error)
    /\ ~Empty(last.in.query.code)
    /\ MarkerPresent(last.in.query.state)
    /\ last.log = <<>>

\* C16: a failure raised inside a route handler (a store operation that
\* fails, an upstream fetch that throws, an upstream body that is not JSON) is
\* turned by the dispatcher into a 500 response: every request that completes
\* has a response, none ends as an uncaught failure.
C16_HandlerFailuresAnswered ==
    last.route # "none" => last.resp.kind = "response"

\* one step of the worker, for C17
C17_Step ==
    (/\ req[Main].pc = "idle"
     /\ last'.route = "/credentials" /\ last'.method = "POST"
     /\ handleCredentials_putFails(Main)) =>
        /\ req'[Main].pc = "idle"
        /\ ~ClaimInvalidForm(last'.in.form)
        /\ IsResponse(last', 500)
        /\ last'.resp.body = credentialsPage("Error processing credentials. Please try again.")
        /\ kv'[CredKey] = kv[CredKey]
        /\ kv' = kv
\* C17: when the store write of the Credentials record fails during a valid
\* POST /credentials, the response is 500 with the generic retry message and
\* the Credentials record in the store is what it was before the request.
C17_FailedCredentialsWrite == [][C17_Step]_vars

\* a failed write over a stored record, which is still the stored one
C17_Witness ==
    /\ last.route = "/credentials"
    /\ IsResponse(last, 500)
    /\ last.in.form.client_id = IdA
    /\ CredsPresent
    /\ JSONparse(kv[CredKey].value).client_id = IdB

\* C18: every response the worker produces, on every route and for every
\* outcome (pages, JSON, the 302 redirects of /setup and /credentials, the 400
\* answers of /callback, 401, 404, 500, the OPTIONS answer), carries the
\* permissive CORS headers.
C18_EveryResponseHasCors ==
    last.resp.kind = "response" => last.resp.cors = corsHeaders

\* C19: the Tokens record a successful callback persists has a store TTL equal
\* to the expires_in of the token payload it holds, whatever value the
\* upstream declared.
C19_TokensTtlIsDeclaredExpiry ==
    TokensPresent =>
        kv[TokKey].ttl = JSONparse(kv[TokKey].value).expires_in

\* the error bodies of the data routes, written out in the code
GenericErrors == {"Failed to fetch current track", "Failed to fetch recent tracks"}

\* one step of the worker, for C20
C20_Step ==
    (/\ req[Main].pc \in {"np_fetch", "recent_fetch"}
     /\ handleNowPlaying_fetch(Main) \/ handleRecent_fetch(Main)
     /\ ~(Upstream(last').status \in 200..299)) =>
        /\ IsResponse(last', Upstream(last').status)
        /\ last'.resp.ctype = "application/json"
        /\ DOMAIN last'.resp.body = {"error"}
        /\ last'.resp.body.error \in GenericErrors
        /\ Upstream(last').body # NoBody =>
              /\ last'.resp.body # Upstream(last').body.obj
              /\ last'.resp.body.error # Upstream(last').body.obj.error
        /\ ~HasOp(last'.log, "put") /\ ~HasOp(last'.log, "delete")
        /\ kv' = kv
\* C20: with Tokens stored, when the upstream answers /now-playing or /recent
\* with a status outside 200..299, the response of the proxy has that same
\* status and a JSON body holding only a fixed error text, nothing of the
\* upstream body; the store is not written.
C20_UpstreamErrorPassesStatus == [][C20_Step]_vars

\* the upstream refused the token with a JSON error body
C20_Witness ==
    /\ last.route = "/recent"
    /\ CalledUpstream(last)
    /\ Upstream(last).status = 401
    /\ Upstream(last).body # NoBody
    /\ IsResponse(last, 401)
    /\ TokensPresent

----------------------------------------------------------------------------
(* Claims C21 to C26 *)

\* C21: with Tokens stored, every 2xx answer of the upstream to the
\* recently-played call, and every 2xx answer other than 204 to the
\* currently-playing call, with or without a body, is answered with a
\* successful response whose body is the JSON body of the upstream.
C21_SuccessBodyPassedThrough ==
    (/\ CalledUpstream(last)
     /\ ok(Upstream(last).status)
     /\ ~(last.route = "/now-playing" /\ Upstream(last).status = 204)) =>
        /\ last.resp.kind = "response"
        /\ ok(last.resp.status)
        /\ Upstream(last).body # NoBody =>
              last.resp.body = JSONstringify(Upstream(last).body.obj)

\* the complete record of the submission held by slot r
SubmittedBy(r, time) ==
    [client_id |-> req[r].in.form.client_id,
     client_secret |-> req[r].in.form.client_secret,
     created_at |-> time]

\* one step of the worker, for C22
C22_Step ==
    /\ \A r \in Req :
          (req[r].pc = "cred_put" /\ req'[r].pc = "idle") =>
              /\ kv'[CredKey].present
              /\ JSONparse(kv'[CredKey].value) = SubmittedBy(r, now)
    /\ kv'[CredKey] # kv[CredKey] =>
          \E r \in Req : req[r].pc = "cred_put" /\ req'[r].pc = "idle"
\* C22: when valid POST /credentials requests overlap, in every interleaving
\* each store write leaves as the Credentials record the complete record of
\* the submission that wrote, so the record afterwards is that of the
\* submission that wrote last, never the client_id of one with the
\* client_secret of the other.
C22_LastWriteWinsWhole == [][C22_Step]_vars

\* two submissions with different values overlapped: one has completed, after
\* the other had written, and the record is its own
C22_Witness ==
    /\ req[2].pc = "cred_put"
    /\ req[2].in.form.client_id = IdB
    /\ last.route = "/credentials" /\ IsResponse(last, 302)
    /\ last.in.form.client_id = IdA
    /\ JSONparse(kv[CredKey].value).client_id = IdA
    /\ JSONparse(kv[CredKey].value).client_secret = SecA

\* the route and method of the request that takes this step, "none" for a
\* step of the clock or the store
StepRoute ==
    IF req' = req /\ last' = last THEN "none"
    ELSE IF req[Main].pc # "idle" THEN req[Main].route
    ELSE IF req'[Main].pc # "idle" THEN req'[Main].route
    ELSE last'.route
StepMethod ==
    IF req[Main].pc # "idle" THEN req[Main].method
    ELSE IF req'[Main].pc # "idle" THEN req'[Main].method
    ELSE last'.method

ReadOnlyStep ==
    \/ StepRoute \in {"/", "/health", "/now-playing", "/recent", "/other",
                      "preflight"}
    \/ StepRoute \in {"/setup", "/credentials"} /\ StepMethod # "POST"

\* one step of the worker, for C23
C23_Step ==
    /\ kv'[CredKey] # kv[CredKey] =>
          /\ handleCredentials_post(Main)
          /\ last'.route = "/credentials" /\ last'.method = "POST"
          /\ ~ClaimInvalidForm(last'.in.form)
    /\ kv'[TokKey] # kv[TokKey] =>
          \/ Expire(TokKey)
          \/ /\ req[Main].pc = "cb_put"
             /\ handleCallback_putTokens(Main)
             /\ HasOp(req[Main].log, "fetch")
             /\ req[Main].loc.data \in TokenPayloads
    /\ \A s \in StateUniverse :
          kv'[StateKey(s)] # kv[StateKey(s)] =>
              \/ Expire(StateKey(s))
              \/ /\ kv'[StateKey(s)].present
                 /\ req[Main].pc = "setup_put" /\ req[Main].method = "POST"
                 /\ handleSetup_putState(Main)
              \/ /\ ~kv'[StateKey(s)].present
                 /\ req[Main].pc = "cb_delete"
                 /\ handleCallback_deleteState(Main)
                 /\ IsResponse(last', 200)
    /\ ReadOnlyStep => kv' = kv
\* C23: the Credentials record is written only by a POST /credentials that
\* passes validation, the Tokens record only by a /callback after a successful
\* token exchange, a state marker is created only by POST /setup and deleted
\* only by a successful /callback; every other change of the store is an
\* expiry, and the steps of requests to /, /health, /now-playing, /recent and
\* of non-POST requests to /setup and /credentials leave every key unchanged.
C23_WritersOfTheStore == [][C23_Step]_vars

\* a GET /setup was served with all three kinds of record stored
C23_Witness ==
    /\ last.route = "/setup" /\ last.method = "GET"
    /\ IsResponse(last, 200)
    /\ CredsPresent /\ TokensPresent
    /\ \E s \in GeneratedStates : MarkerPresent(s)

\* C24: in every store reachable from the empty one, a Tokens record is
\* present only with a Credentials record; no landing page showed not_started
\* having read a Tokens record, and no /health answer reported
\* oauth_configured = true with credentials_configured = false.
C24_TokensImplyCredentials ==
    /\ TokensPresent => CredsPresent
    /\ (last.route = "/" /\ last.resp.kind = "response") =>
          ~(/\ last.resp.body.setupStatus = "not_started"
            /\ last.loc.storedTokens # JsNull)
    /\ (last.route = "/health" /\ last.resp.kind = "response") =>
          ~(/\ last.resp.body.oauth_configured
            /\ ~last.resp.body.credentials_configured)

\* /health has reported both records while both are stored
C24_Witness ==
    /\ last.route = "/health"
    /\ last.resp.body.oauth_configured
    /\ last.resp.body.credentials_configured
    /\ TokensPresent /\ CredsPresent

\* the client_id of the authorize redirect that stored the marker of state s,
\* where the last completed request tells: the POST /setup itself, or a
\* credential submission that followed it at once
NoClient == <<"<none>">>
AuthorizedAs(s) ==
    IF /\ last.route = "/setup"
       /\ last.resp.kind = "response"
       /\ last.resp.location.url = AuthorizeUrl
       /\ last.resp.location.state = s
    THEN last.resp.location.client_id
    ELSE IF /\ last.route = "/credentials"
            /\ "pending" \in DOMAIN last.loc
            /\ last.loc.pending # None
            /\ last.loc.pending.state = s
    THEN last.loc.pending.client_id
    ELSE NoClient

\* one step of the worker, for C25
C25_Step ==
    (/\ req[Main].pc = "cb_fetch"
     /\ exchangeCodeForTokens_fetch(Main)
     /\ req'[Main].pc = "cb_put"
     /\ AuthorizedAs(req[Main].in.query.state) # NoClient) =>
        req[Main].loc.credentials.client_id
            = AuthorizedAs(req[Main].in.query.state)
\* C25: when the token exchange of a callback succeeds, the client_id that
\* authenticated the exchange is the client_id of the authorize redirect that
\* stored the marker of the callback's state, also when a POST /credentials
\* with other values completed between the POST /setup and the callback.
C25_ExchangeUsesAuthorizingClient == [][C25_Step]_vars

\* one step of the worker, for C26
C26_Step ==
    /\ (/\ req[Main].pc = "idle"
        /\ last'.route = "/credentials" /\ last'.method = "POST"
        /\ handleCredentials_post(Main)
        /\ ~ClaimInvalidForm(last'.in.form)) =>
          /\ \A k \in Keys \ {CredKey} : kv'[k] = kv[k]
          /\ (CredsPresent /\ TokensPresent) =>
                setupStatus(getStoredCredentials(kv'),
                            getStoredTokens(kv')).setupStatus = "complete"
    /\ (/\ req[Main].pc = "idle"
        /\ last.route = "/credentials" /\ last.method = "POST"
        /\ IsResponse(last, 302)
        /\ TokensPresent
        /\ handleNowPlaying_getTokens(Main) \/ handleRecent_getTokens(Main)) =>
          /\ req'[Main].pc \in {"np_fetch", "recent_fetch"}
          /\ req'[Main].loc.tokens = JSONparse(kv[TokKey].value)
    /\ (/\ req[Main].pc \in {"np_fetch", "recent_fetch"}
        /\ handleNowPlaying_fetch(Main) \/ handleRecent_fetch(Main)) =>
          \E i \in 1..Len(last'.log) :
              /\ last'.log[i].op = "fetch"
              /\ last'.log[i].auth = BearerAuth(req[Main].loc.tokens.access_token)
\* C26: a valid POST /credentials changes the spotify_credentials key only:
\* the Tokens record and every state marker stay as they were, so a
\* submission made while setup is complete leaves it complete, and the data
\* routes go on calling the upstream with the access token stored before.
C26_CredentialsPostFrame == [][C26_Step]_vars

\* with Tokens stored and a marker pending under client A, credentials with
\* client B were submitted; the marker is still stored and /now-playing is
\* calling the upstream with the stored token
C26_Witness ==
    /\ last.route = "/credentials" /\ IsResponse(last, 302)
    /\ "pending" \in DOMAIN last.loc
    /\ last.loc.pending # None
    /\ last.loc.pending.client_id = IdA
    /\ last.in.form.client_id = IdB
    /\ MarkerPresent(last.loc.pending.state)
    /\ TokensPresent
    /\ req[Main].pc = "np_fetch"
    /\ req[Main].loc.tokens = JSONparse(kv[TokKey].value)


====
